---- MODULE Spec2Model ----
(***************************************************************************)
(* Model of the note persistence layer of src/src/db.ts: getNote() and     *)
(* saveNote(content) over localStorage (the Fast backend) and IndexedDB    *)
(* (the Durable backend), run on a single-threaded event loop.  Every      *)
(* synchronous section of a call is one action; a call suspends only at    *)
(* `await openDB()` and at the awaited request/transaction promise.        *)
(***************************************************************************)
EXTENDS Integers, Sequences, FiniteSets, TLC

(* ------------------------------ bounds --------------------------------- *)
\* number of IndexedDB requests outstanding at once: those of the calls in
\* flight plus the put transactions abandoned by their timeout
MaxPending == 2
\* the least value Date.now() returns, and how many times it is seen to
\* have advanced
ClockStart == 9
MaxTicks == 1

\* The calls that may overlap.  The editor has two sources of calls: the
\* load/save path, which serialises its own calls (isLoadingRef,
\* isSavingRef), and the beforeunload handler, which calls saveNote whatever
\* is in flight.
Slots == {1, 2}
MaxClock == ClockStart + MaxTicks
\* the contents a caller passes to saveNote
Contents == {"", "a"}

(* ------------------------------ values --------------------------------- *)
\* null / undefined where a Note is expected (real notes have id 1)
NoNote == [id |-> 0, content |-> "", updatedAt |-> 0]
\* the value parseInt yields for a string with no leading digits
NaN == -1
\* localStorage.getItem(k): has = FALSE is null
NoItem == [has |-> FALSE, v |-> ""]
NoTimeItem == [has |-> FALSE, v |-> << >>]

Digits == <<"0", "1", "2", "3", "4", "5", "6", "7", "8", "9">>

\* Number.prototype.toString() of a non-negative integer
RECURSIVE toString(_)
toString(n) ==
  IF n < 10 THEN <<Digits[n + 1]>>
  ELSE toString(n \div 10) \o <<Digits[(n % 10) + 1]>>

IsDigit(ch) == \E i \in 1..10 : Digits[i] = ch
DigitVal(ch) == (CHOOSE i \in 1..10 : Digits[i] = ch) - 1

\* value of the longest prefix of s made of digits, acc is the value so far
RECURSIVE parseDigits(_, _)
parseDigits(s, acc) ==
  IF s = << >> \/ ~IsDigit(Head(s)) THEN acc
  ELSE parseDigits(Tail(s), acc * 10 + DigitVal(Head(s)))

\* parseInt(s, 10)
parseInt(s) ==
  IF s = << >> \/ ~IsDigit(Head(s)) THEN NaN ELSE parseDigits(s, 0)

(* ------------------------------ state ---------------------------------- *)
VARIABLES
  clock,      \* the value Date.now() returned last (it never decreases)
  ls,         \* localStorage: the keys noteApp_backup, noteApp_backup_time
              \* and __localStorage_test__ (test)
  idb,        \* the record with key 1 of the object store, NoNote when absent
  calls,      \* the calls in flight in the order they started, then Idle
  orphans,    \* notes of the put transactions abandoned by the timeout
  lastSaved,  \* history: the saveNote invoked last
  ui          \* the editor page (App.tsx): its refs, state and timers

vars == <<clock, ls, idb, calls, orphans, lastSaved, ui>>

\* n = 0: no save invoked yet; n = 1: the first save; n = 2: a save invoked
\* after an earlier save and when every earlier save had resolved; n = 3: a
\* save invoked while an earlier one was in flight.  A later save replaces
\* the record, so the save recorded overlaps no save invoked after it.
NoSave == [n |-> 0, content |-> ""]

Idle ==
  [kind |-> "idle", pc |-> "idle", status |-> "none",
   \* saveNote's argument and its `const now = Date.now()`
   content |-> "", now |-> 0,
   lsNote |-> NoNote, idbNote |-> NoNote, result |-> NoNote,
   \* fOut: did getNote read localStorage; dOut: how the IndexedDB section
   \* ended; dbOpen: is the IDBDatabase connection of the call open
   fOut |-> "none", dOut |-> "none", dbOpen |-> FALSE]

Awaiting(c) == calls[c].pc \in {"awaitOpen", "awaitGet", "awaitPut"}
SaveInFlight == \E c \in Slots : calls[c].kind = "save" /\ Awaiting(c)
NumAwaiting == Cardinality({c \in Slots : Awaiting(c)})
\* getNote has one call site, run once when the editor mounts; until it has
\* resolved the editor is not rendered and isLoadingRef is set, so the page
\* starts no saveNote (App.tsx loadNote, saveContent, handleBeforeUnload)
GetInFlight == \E c \in Slots : calls[c].kind = "get" /\ Awaiting(c)

\* the first free slot takes the next call
FreeSlot(c) ==
  /\ calls[c].pc = "idle"
  /\ \A o \in Slots : o < c => calls[o].pc # "idle"
  /\ NumAwaiting + Cardinality(orphans) < MaxPending

\* App: the values of useState / useRef when the component mounts.  phase is
\* the position of loadNote, note the value it got from getNote, editor the
\* innerHTML of the editor div (rendered only when isLoading is false), timer
\* whether the timer of saveTimeoutRef is pending, slot the slot of the
\* saveNote call that saveContent awaits (0: none).  dirty is history: an
\* input event came, no blur, visibilitychange or beforeunload event followed
\* it, and since it came no saveNote carrying the editor's content was issued
\* nor did saveContent find the content equal to the marker.
Mounting ==
  [phase |-> "mount", note |-> NoNote, isLoading |-> TRUE,
   isLoadingRef |-> FALSE, isSavingRef |-> FALSE, lastSavedContentRef |-> "",
   editor |-> "", timer |-> FALSE, slot |-> 0, dirty |-> FALSE]

Init ==
  /\ clock = ClockStart
  /\ ls = [backup |-> NoItem, backup_time |-> NoTimeItem, test |-> NoItem]
  /\ idb = NoNote
  /\ calls = [c \in Slots |-> Idle]
  /\ orphans = {}
  /\ lastSaved = NoSave
  /\ ui = Mounting

(* --------------------------- Fast backend ------------------------------ *)
\* JavaScript truthiness of a string-or-null
Truthy(item) == item.has /\ item.v # ""

\* backupTime || '0'
TimeOrZero(item) == IF item.has /\ item.v # << >> THEN item.v ELSE <<"0">>

\* localStorage.setItem(test, test) and localStorage.removeItem(test)
SetTest(store) ==
  [store EXCEPT !.test = [has |-> TRUE, v |-> "__localStorage_test__"]]
RemoveTest(store) == [store EXCEPT !.test = NoItem]

\* (variant: the probe does not remove its key)
isLocalStorageAvailable_keep(store, ok) ==
  IF ok THEN SetTest(store) ELSE store

\* the store after isLocalStorageAvailable(); ok = FALSE: setItem throws,
\* nothing is written and the answer is false
isLocalStorageAvailable(store, ok) ==
  IF ok THEN RemoveTest(SetTest(store)) ELSE store

\* getNote, the localStorage read
FastGet(store) ==
  IF Truthy(store.backup)
  THEN [id |-> 1, content |-> store.backup.v,
        updatedAt |-> parseInt(TimeOrZero(store.backup_time))]
  ELSE NoNote

\* saveNote, the two setItem calls; w says which of them throws
FastPut(store, content, now, w) ==
  IF w = "contentThrows" THEN store
  ELSE IF w = "timeThrows"
       THEN [store EXCEPT !.backup = [has |-> TRUE, v |-> content]]
       ELSE [store EXCEPT !.backup = [has |-> TRUE, v |-> content],
                          !.backup_time = [has |-> TRUE, v |-> toString(now)]]

(* -------------------------- call completion ---------------------------- *)
\* (variant: the note is stamped by a second reading of the clock)
NoteOf_restamp(call) ==
  [id |-> 1, content |-> call.content, updatedAt |-> clock]

\* saveNote: const note = { id: 1, content, updatedAt: now }
NoteOf(call) == [id |-> 1, content |-> call.content, updatedAt |-> call.now]

\* (variant: a catch block that logs and throws the error again)
CatchIDB_rethrow(call, d) == [call EXCEPT !.dOut = d, !.status = "rejected"]

\* the catch blocks around the IndexedDB sections: log and fall through
CatchIDB(call, d) == [call EXCEPT !.dOut = d]

\* the IndexedDB section ran to its end with outcome d
EndIDB(call, d) == [call EXCEPT !.dOut = d]

\* (variant: "get or create", an empty Entry is made up when none is stored)
Reconcile_create(lsNote, idbNote) ==
  IF lsNote # NoNote THEN lsNote
  ELSE IF idbNote # NoNote THEN idbNote
  ELSE [id |-> 1, content |-> "", updatedAt |-> 0]

\* getNote: the precedence between the two notes read
Reconcile(lsNote, idbNote) ==
  IF lsNote # NoNote THEN lsNote
  ELSE IF idbNote # NoNote THEN idbNote
  ELSE NoNote

\* getNote: the return statements; an exception that escaped rejects
GetReturn(call) ==
  IF call.status = "rejected" THEN [call EXCEPT !.pc = "done"]
  ELSE [call EXCEPT !.pc = "done", !.status = "resolved",
                    !.result = Reconcile(call.lsNote, call.idbNote)]

\* (variant: the Entry returned is read back from the stores)
SaveReturn_reread(call) ==
  IF call.status = "rejected" THEN [call EXCEPT !.pc = "done"]
  ELSE [call EXCEPT !.pc = "done", !.status = "resolved",
                    !.result = Reconcile(FastGet(ls), idb)]

\* saveNote: return note
SaveReturn(call) ==
  IF call.status = "rejected" THEN [call EXCEPT !.pc = "done"]
  ELSE [call EXCEPT !.pc = "done", !.status = "resolved",
                    !.result = NoteOf(call)]

SavedBy(call) ==
  [n |-> IF SaveInFlight THEN 3 ELSE IF lastSaved.n >= 1 THEN 2 ELSE 1,
   content |-> call.content]

\* slot c finishes its saveNote with record call
FinishSave(c, call) ==
  /\ calls' = [calls EXCEPT ![c] = SaveReturn(call)]
  /\ lastSaved' = lastSaved

FinishGet(c, call) ==
  /\ calls' = [calls EXCEPT ![c] = GetReturn(call)]
  /\ lastSaved' = lastSaved

(* ------------------------------ the loop ------------------------------- *)
\* The continuation of a caller awaiting a settled promise is a microtask:
\* it runs before the event loop takes the next task, so while a call is
\* done nothing but its caller's continuation (Reclaim) runs.
NoneDone == \A c \in Slots : calls[c].pc # "done"

\* const db = await openDB()  ...  db.close()
OpenConn(call) == [call EXCEPT !.dbOpen = TRUE]
CloseConn(call) == [call EXCEPT !.dbOpen = FALSE]

TxFailures == {"txError", "abort", "putError"}
FastWrites == {"contentThrows", "timeThrows", "ok"}

(* ------------------------------ saveNote ------------------------------- *)
\* saveNote up to `await openDB()`.  tick: has the clock advanced since it
\* was last read.  w: which setItem throws; isLocalStorageAvailable()
\* answering false (probe) skips both writes, as a first setItem that throws
\* does.
\* idbAvail: what isIndexedDBAvailable() answers.  An indexedDB.open() that
\* throws rejects the promise of openDB, as request.onerror does
\* (SaveOpenError).
saveNote(c, content, tick, w, idbAvail) ==
  /\ NoneDone
  /\ FreeSlot(c)
  /\ ~GetInFlight
  /\ w \in FastWrites
  /\ clock + tick <= MaxClock
  /\ LET now == clock + tick
         call == [Idle EXCEPT !.kind = "save", !.content = content,
                              !.now = now]
         next == IF idbAvail THEN [call EXCEPT !.pc = "awaitOpen"]
                 ELSE SaveReturn(EndIDB(call, "failed"))
     IN /\ clock' = now
        /\ \E probe \in BOOLEAN :
             /\ w # "contentThrows" => probe
             /\ ls' = FastPut(isLocalStorageAvailable(ls, probe), content, now, w)
        /\ calls' = [calls EXCEPT ![c] = next]
        /\ lastSaved' = SavedBy(call)
  /\ UNCHANGED <<idb, orphans>>

\* a saveNote call of a caller other than the editor page
SaveStart(c, content, tick, w, idbAvail) ==
  saveNote(c, content, tick, w, idbAvail) /\ UNCHANGED ui

\* (variant: the Durable write is issued first, localStorage is written once
\* the open has succeeded)
SaveOpenSuccess_thenFast(c, txThrows) ==
  /\ NoneDone
  /\ calls[c].kind = "save" /\ calls[c].pc = "awaitOpen"
  /\ IF txThrows
     THEN FinishSave(c, CatchIDB(OpenConn(calls[c]), "failed"))
     ELSE /\ calls' = [calls EXCEPT ![c] = [OpenConn(calls[c]) EXCEPT !.pc = "awaitPut"]]
          /\ lastSaved' = lastSaved
  /\ ls' = FastPut(ls, calls[c].content, calls[c].now, "ok")
  /\ UNCHANGED <<clock, idb, orphans, ui>>

\* request.onsuccess of the open, then db.transaction / objectStore / put
\* (txThrows: one of them throws) and the start of the awaited promise
SaveOpenSuccess(c, txThrows) ==
  /\ NoneDone
  /\ calls[c].kind = "save" /\ calls[c].pc = "awaitOpen"
  /\ IF txThrows
     THEN FinishSave(c, CatchIDB(OpenConn(calls[c]), "failed"))
     ELSE /\ calls' = [calls EXCEPT ![c] = [OpenConn(calls[c]) EXCEPT !.pc = "awaitPut"]]
          /\ lastSaved' = lastSaved
  /\ UNCHANGED <<clock, ls, idb, orphans, ui>>

\* request.onerror of the open: openDB rejects, the catch block runs
SaveOpenError(c) ==
  /\ NoneDone
  /\ calls[c].kind = "save" /\ calls[c].pc = "awaitOpen"
  /\ FinishSave(c, CatchIDB(calls[c], "failed"))
  /\ UNCHANGED <<clock, ls, idb, orphans, ui>>

\* transaction.oncomplete before the timeout: the put is committed
SaveTxComplete(c) ==
  /\ NoneDone
  /\ calls[c].kind = "save" /\ calls[c].pc = "awaitPut"
  /\ idb' = NoteOf(calls[c])
  /\ FinishSave(c, EndIDB(CloseConn(calls[c]), "ok"))
  /\ UNCHANGED <<clock, ls, orphans, ui>>

\* transaction.onerror, transaction.onabort or putRequest.onerror (ev) before
\* the timeout: every one of them resolves, nothing is committed
SaveTxFail(c, ev) ==
  /\ NoneDone
  /\ ev \in TxFailures
  /\ calls[c].kind = "save" /\ calls[c].pc = "awaitPut"
  /\ FinishSave(c, EndIDB(CloseConn(calls[c]), "failed"))
  /\ UNCHANGED <<clock, ls, idb, orphans, ui>>

\* (variant: the timer callback tests `resolved` instead of `!resolved`, so
\* it acts only once the promise is settled, which is never its own doing)
SaveTimeout_inverted(c) ==
  /\ NoneDone
  /\ calls[c].kind = "save" /\ calls[c].pc = "awaitPut"
  /\ calls[c].status = "resolved"
  /\ orphans' = orphans \cup {NoteOf(calls[c])}
  /\ FinishSave(c, EndIDB(CloseConn(calls[c]), "timeout"))
  /\ UNCHANGED <<clock, ls, idb, ui>>

\* the 5 second timer fires first: resolve, db.close(), return note; the
\* transaction stays outstanding in IndexedDB
SaveTimeout(c) ==
  /\ NoneDone
  /\ calls[c].kind = "save" /\ calls[c].pc = "awaitPut"
  /\ orphans' = orphans \cup {NoteOf(calls[c])}
  /\ FinishSave(c, EndIDB(CloseConn(calls[c]), "timeout"))
  /\ UNCHANGED <<clock, ls, idb, ui>>

(* ------------------------------- getNote ------------------------------- *)
\* getNote up to `await openDB()`.  probe: the setItem of
\* isLocalStorageAvailable() does not throw; readable: it does not, and no
\* getItem throws; idbAvail as above.
getNote(c, readable, idbAvail) ==
  /\ NoneDone
  /\ FreeSlot(c)
  /\ ~GetInFlight /\ ~SaveInFlight
  /\ LET fo == IF readable THEN "ok" ELSE "failed"
         call == [Idle EXCEPT !.kind = "get",
                    !.lsNote = IF fo = "ok" THEN FastGet(ls) ELSE NoNote,
                    !.fOut = fo]
     IN IF idbAvail
        THEN /\ calls' = [calls EXCEPT ![c] = [call EXCEPT !.pc = "awaitOpen"]]
             /\ lastSaved' = lastSaved
        ELSE FinishGet(c, EndIDB(call, "failed"))
  /\ \E probe \in BOOLEAN :
       /\ readable => probe
       /\ ls' = isLocalStorageAvailable(ls, probe)
  /\ UNCHANGED <<clock, idb, orphans>>

\* a getNote call of a caller other than the editor page
GetStart(c, readable, idbAvail) ==
  getNote(c, readable, idbAvail) /\ UNCHANGED ui

\* request.onsuccess of the open, then db.transaction / objectStore / get
GetOpenSuccess(c, txThrows) ==
  /\ NoneDone
  /\ calls[c].kind = "get" /\ calls[c].pc = "awaitOpen"
  /\ IF txThrows
     THEN FinishGet(c, CatchIDB(OpenConn(calls[c]), "failed"))
     ELSE /\ calls' = [calls EXCEPT ![c] = [OpenConn(calls[c]) EXCEPT !.pc = "awaitGet"]]
          /\ lastSaved' = lastSaved
  /\ UNCHANGED <<clock, ls, idb, orphans, ui>>

GetOpenError(c) ==
  /\ NoneDone
  /\ calls[c].kind = "get" /\ calls[c].pc = "awaitOpen"
  /\ FinishGet(c, CatchIDB(calls[c], "failed"))
  /\ UNCHANGED <<clock, ls, idb, orphans, ui>>

\* request.onsuccess of store.get(1): resolve(result || null)
GetSuccess(c) ==
  /\ NoneDone
  /\ calls[c].kind = "get" /\ calls[c].pc = "awaitGet"
  /\ FinishGet(c, EndIDB(CloseConn([calls[c] EXCEPT !.idbNote = idb]), "ok"))
  /\ UNCHANGED <<clock, ls, idb, orphans, ui>>

\* request.onerror of store.get(1): resolve(null)
GetError(c) ==
  /\ NoneDone
  /\ calls[c].kind = "get" /\ calls[c].pc = "awaitGet"
  /\ FinishGet(c, EndIDB(CloseConn(calls[c]), "failed"))
  /\ UNCHANGED <<clock, ls, idb, orphans, ui>>

\* the 5 second timer fires first: resolve(null).  The request stays
\* outstanding in IndexedDB; its later event finds the promise settled and
\* changes no variable, so it is a stuttering step.
GetTimeout(c) ==
  /\ NoneDone
  /\ calls[c].kind = "get" /\ calls[c].pc = "awaitGet"
  /\ FinishGet(c, EndIDB(CloseConn(calls[c]), "timeout"))
  /\ UNCHANGED <<clock, ls, idb, orphans, ui>>

(* --------------------------- the environment --------------------------- *)
\* an event of a put transaction whose promise the timeout already resolved:
\* the handlers find resolved = true and do nothing; a transaction that
\* commits still replaces the stored record
LateEvent(o, commits) ==
  /\ NoneDone
  /\ o \in orphans
  /\ orphans' = orphans \ {o}
  /\ idb' = IF commits THEN o ELSE idb
  /\ UNCHANGED <<clock, ls, calls, lastSaved, ui>>

\* the caller's continuation takes the settled promise's value; the calls
\* that started later move down one slot
Settle(c) ==
  /\ calls[c].pc = "done"
  /\ calls' = [o \in Slots |->
                IF o < c THEN calls[o]
                ELSE IF o + 1 \in Slots THEN calls[o + 1] ELSE Idle]
  /\ UNCHANGED <<clock, ls, idb, orphans, lastSaved>>

\* the continuation of a caller other than the editor page
Reclaim(c) == Settle(c) /\ UNCHANGED ui


Next ==
  \/ \E c \in Slots, content \in Contents, tick \in {0, 1},
        w \in FastWrites, idbAvail \in BOOLEAN :
       SaveStart(c, content, tick, w, idbAvail)
  \/ \E c \in Slots, txThrows \in BOOLEAN : SaveOpenSuccess(c, txThrows)
  \/ \E c \in Slots : SaveOpenError(c)
  \/ \E c \in Slots : SaveTxComplete(c)
  \/ \E c \in Slots, ev \in TxFailures : SaveTxFail(c, ev)
  \/ \E c \in Slots : SaveTimeout(c)
  \/ \E c \in Slots, readable \in BOOLEAN, idbAvail \in BOOLEAN :
       GetStart(c, readable, idbAvail)
  \/ \E c \in Slots, txThrows \in BOOLEAN : GetOpenSuccess(c, txThrows)
  \/ \E c \in Slots : GetOpenError(c)
  \/ \E c \in Slots : GetSuccess(c)
  \/ \E c \in Slots : GetError(c)
  \/ \E c \in Slots : GetTimeout(c)
  \/ \E o \in orphans, commits \in BOOLEAN : LateEvent(o, commits)
  \/ \E c \in Slots : Reclaim(c)

Spec == Init /\ [][Next]_vars

\* The event loop runs a pending continuation, and it runs the callback of
\* an armed timer: other tasks may run first (and disable the timer's action
\* for the length of a continuation) but cannot postpone it for ever.
\* Nothing is assumed of IndexedDB's events.
FairSpec ==
  /\ Spec
  /\ \A c \in Slots :
       SF_vars(SaveTimeout(c)) /\ SF_vars(GetTimeout(c)) /\ WF_vars(Reclaim(c))

(* ------------------------- reads of a found store ---------------------- *)
\* What a page may find in the two stores when it starts: localStorage is
\* shared by every script of the origin and outlives the page, so the keys
\* may hold what this code never wrote.
StoredBackups == {NoItem, [has |-> TRUE, v |-> ""], [has |-> TRUE, v |-> "a"]}
StoredTimes ==
  {NoTimeItem, [has |-> TRUE, v |-> << >>], [has |-> TRUE, v |-> <<"x">>],
   [has |-> TRUE, v |-> <<"9">>], [has |-> TRUE, v |-> <<"1", "0">>]}
StoredNotes ==
  {NoNote, [id |-> 1, content |-> "", updatedAt |-> ClockStart],
   [id |-> 1, content |-> "a", updatedAt |-> ClockStart]}

StoredInit ==
  /\ clock = ClockStart
  /\ ls \in [backup : StoredBackups, backup_time : StoredTimes,
              test : {NoItem}]
  /\ idb \in StoredNotes
  /\ calls = [c \in Slots |-> Idle]
  /\ orphans = {}
  /\ lastSaved = NoSave
  /\ ui = Mounting

\* getNote alone, applied to what it finds
ReadNext ==
  \/ \E c \in Slots, readable \in BOOLEAN, idbAvail \in BOOLEAN :
       GetStart(c, readable, idbAvail)
  \/ \E c \in Slots, txThrows \in BOOLEAN : GetOpenSuccess(c, txThrows)
  \/ \E c \in Slots : GetOpenError(c)
  \/ \E c \in Slots : GetSuccess(c)
  \/ \E c \in Slots : GetError(c)
  \/ \E c \in Slots : GetTimeout(c)
  \/ \E c \in Slots : Reclaim(c)

ReadSpec == StoredInit /\ [][ReadNext]_vars

(* ------------------------------ App.tsx -------------------------------- *)
\* the editor div is rendered, and editorRef.current set, once isLoading is
\* false: until then the component returns the "Carregando..." div
Rendered == ~ui.isLoading

\* editorRef.current?.innerHTML || ''
EditorContent == IF Rendered THEN ui.editor ELSE ""

\* saveContent up to `await saveNote(content)`, run by a handler that leaves
\* the page as u
saveContent(u) ==
  IF u.isLoadingRef \/ u.isSavingRef
  THEN ui' = u /\ UNCHANGED <<clock, ls, idb, calls, orphans, lastSaved>>
  ELSE IF EditorContent = u.lastSavedContentRef
  THEN /\ ui' = [u EXCEPT !.dirty = FALSE]
       /\ UNCHANGED <<clock, ls, idb, calls, orphans, lastSaved>>
  ELSE \E c \in Slots, tick \in {0, 1}, w \in FastWrites, idbAvail \in BOOLEAN :
         /\ saveNote(c, EditorContent, tick, w, idbAvail)
         /\ ui' = [u EXCEPT !.isSavingRef = TRUE, !.slot = c, !.dirty = FALSE]

\* the mount effect: loadNote up to `await getNote()`
LoadStart ==
  /\ ui.phase = "mount"
  /\ \E c \in Slots, readable \in BOOLEAN, idbAvail \in BOOLEAN :
       getNote(c, readable, idbAvail)
  /\ ui' = [ui EXCEPT !.phase = "getNote", !.isLoadingRef = TRUE]

\* the slot saveContent awaits after the call of slot c is settled
SlotAfter(c) == IF ui.slot > c THEN ui.slot - 1 ELSE ui.slot

\* loadNote resumes with the value of getNote and starts the 100 ms wait; a
\* rejection goes to the catch and finally blocks
LoadGot(c) ==
  /\ ui.phase = "getNote" /\ calls[c].kind = "get"
  /\ Settle(c)
  /\ ui' = IF calls[c].status = "rejected"
           THEN [ui EXCEPT !.phase = "ready", !.isLoadingRef = FALSE,
                           !.isLoading = FALSE, !.slot = SlotAfter(c)]
           ELSE [ui EXCEPT !.phase = "wait100", !.note = calls[c].result,
                           !.slot = SlotAfter(c)]

\* the 100 ms timer of loadNote: `if (note && editorRef.current)` and the
\* finally block; and the 500 ms timer its first branch sets
LoadTimer ==
  /\ NoneDone
  /\ ui.phase \in {"wait100", "wait500"}
  /\ ui' = IF ui.phase = "wait500"
           THEN [ui EXCEPT !.phase = "ready", !.isLoadingRef = FALSE]
           ELSE IF ui.note # NoNote /\ Rendered
           THEN [ui EXCEPT !.phase = "wait500", !.note = NoNote,
                           !.editor = ui.note.content,
                           !.lastSavedContentRef = ui.note.content,
                           !.isLoading = FALSE]
           ELSE [ui EXCEPT !.phase = "ready", !.note = NoNote,
                           !.editor = "", !.isLoadingRef = FALSE,
                           !.isLoading = FALSE]
  /\ UNCHANGED <<clock, ls, idb, calls, orphans, lastSaved>>

\* the user changes the text of the editor div; onInput runs handleInput
Input(content) ==
  /\ NoneDone
  /\ Rendered /\ content # ui.editor
  /\ ui' = IF ui.isLoadingRef \/ ui.isSavingRef
           THEN [ui EXCEPT !.editor = content, !.dirty = TRUE]
           ELSE [ui EXCEPT !.editor = content, !.dirty = TRUE, !.timer = TRUE]
  /\ UNCHANGED <<clock, ls, idb, calls, orphans, lastSaved>>

\* the 2 s timer of handleInput: saveContent(); saveTimeoutRef.current = null
TimerFires ==
  /\ NoneDone
  /\ ui.timer
  /\ saveContent([ui EXCEPT !.timer = FALSE])

\* onBlur of the editor div
handleBlur ==
  /\ NoneDone
  /\ Rendered
  /\ IF ~ui.isSavingRef /\ ~ui.isLoadingRef
     THEN saveContent([ui EXCEPT !.timer = FALSE, !.dirty = FALSE])
     ELSE /\ ui' = [ui EXCEPT !.timer = FALSE, !.dirty = FALSE]
          /\ UNCHANGED <<clock, ls, idb, calls, orphans, lastSaved>>

\* visibilitychange of the document, with document.hidden
handleVisibilityChange ==
  /\ NoneDone
  /\ IF ~ui.isSavingRef /\ ~ui.isLoadingRef
     THEN saveContent([ui EXCEPT !.timer = FALSE, !.dirty = FALSE])
     ELSE /\ ui' = [ui EXCEPT !.timer = FALSE, !.dirty = FALSE]
          /\ UNCHANGED <<clock, ls, idb, calls, orphans, lastSaved>>

\* beforeunload of the window: the timer is cleared and, when
\* `content.trim() || content.includes('<')`, saveNote is called whatever the
\* flags say; its promise has no continuation but a catch.  The event also
\* comes when the navigation is then cancelled or is a download, so the page
\* may live on.
handleBeforeUnload ==
  /\ NoneDone
  /\ IF EditorContent # ""
     THEN \E c \in Slots, tick \in {0, 1}, w \in FastWrites, idbAvail \in BOOLEAN :
            /\ saveNote(c, EditorContent, tick, w, idbAvail)
            /\ ui' = [ui EXCEPT !.timer = FALSE, !.dirty = FALSE]
     ELSE /\ ui' = [ui EXCEPT !.timer = FALSE, !.dirty = FALSE]
          /\ UNCHANGED <<clock, ls, idb, calls, orphans, lastSaved>>

\* saveContent resumes after `await saveNote(content)`: the marker is set
\* (not in the catch block) and the finally block clears the flag
SaveContentDone(c) ==
  /\ c = ui.slot
  /\ Settle(c)
  /\ ui' = [ui EXCEPT !.isSavingRef = FALSE, !.slot = 0,
                      !.lastSavedContentRef =
                         IF calls[c].status = "rejected" THEN @
                         ELSE calls[c].content]

\* the promise of the saveNote that handleBeforeUnload called settles
UnloadSaveDone(c) ==
  /\ calls[c].kind = "save" /\ c # ui.slot
  /\ Settle(c)
  /\ ui' = [ui EXCEPT !.slot = SlotAfter(c)]

AppNext ==
  \/ LoadStart
  \/ \E c \in Slots : LoadGot(c)
  \/ LoadTimer
  \/ \E content \in Contents : Input(content)
  \/ TimerFires
  \/ handleBlur
  \/ handleVisibilityChange
  \/ handleBeforeUnload
  \/ \E c \in Slots : SaveContentDone(c)
  \/ \E c \in Slots : UnloadSaveDone(c)
  \/ \E c \in Slots, txThrows \in BOOLEAN : SaveOpenSuccess(c, txThrows)
  \/ \E c \in Slots : SaveOpenError(c)
  \/ \E c \in Slots : SaveTxComplete(c)
  \/ \E c \in Slots, ev \in TxFailures : SaveTxFail(c, ev)
  \/ \E c \in Slots : SaveTimeout(c)
  \/ \E c \in Slots, txThrows \in BOOLEAN : GetOpenSuccess(c, txThrows)
  \/ \E c \in Slots : GetOpenError(c)
  \/ \E c \in Slots : GetSuccess(c)
  \/ \E c \in Slots : GetError(c)
  \/ \E c \in Slots : GetTimeout(c)
  \/ \E o \in orphans, commits \in BOOLEAN : LateEvent(o, commits)

\* the page, started on whatever the stores hold
AppSpec == StoredInit /\ [][AppNext]_vars

\* The page with its timers and continuations run by the event loop, as in
\* FairSpec, and with an IndexedDB whose open fires success or error.
AppFairSpec ==
  /\ AppSpec
  /\ SF_vars(TimerFires) /\ SF_vars(LoadTimer)
  /\ \A c \in Slots :
       /\ WF_vars(LoadGot(c)) /\ WF_vars(SaveContentDone(c))
       /\ WF_vars(UnloadSaveDone(c))
       /\ SF_vars(SaveTimeout(c)) /\ SF_vars(GetTimeout(c))
       /\ SF_vars(SaveOpenError(c) \/ \E t \in BOOLEAN : SaveOpenSuccess(c, t))
       /\ SF_vars(GetOpenError(c) \/ \E t \in BOOLEAN : GetOpenSuccess(c, t))

(* ============================ properties =============================== *)
IsGetDone(c) == calls[c].kind = "get" /\ calls[c].pc = "done"
IsSaveDone(c) == calls[c].kind = "save" /\ calls[c].pc = "done"

\* slot c holds a finished getNote that was issued after the save recorded
\* in lastSaved had resolved: a getNote starts when no save is in flight, and
\* no save starts while a getNote runs
GetAfterSave(c) == IsGetDone(c) /\ lastSaved.n >= 1

\* the Fast backend took that save's Entry and answered the read
FastServed(c) ==
  /\ calls[c].fOut = "ok"
  /\ ls.backup = [has |-> TRUE, v |-> lastSaved.content]
  /\ ls.backup_time.has

\* C1 (round trip): a getNote issued after saveNote(c) has resolved, no other
\* save in between, yields an Entry whose content is c -- stated here for the
\* gets whose Fast backend holds c and is readable.
C1_RoundTrip ==
  \A c \in Slots :
    GetAfterSave(c) /\ FastServed(c)
      => /\ calls[c].result # NoNote
         /\ calls[c].result.content = lastSaved.content

\* C2 (empty save): after saveNote('') has resolved, getNote yields an Entry
\* with content '', neither null nor an older content of the Durable backend.
C2_EmptySave ==
  \A c \in Slots :
    GetAfterSave(c) /\ FastServed(c) /\ lastSaved.content = ""
      => /\ calls[c].result # NoNote
         /\ calls[c].result.content = ""

\* C3 (Durable backend down): when no put was ever committed and the read of
\* the Durable backend fails too, getNote after saveNote(c) still returns an
\* Entry with content c, taken from the Fast backend.
C3_DurableDown ==
  \A c \in Slots :
    /\ GetAfterSave(c) /\ FastServed(c)
    /\ idb = NoNote /\ orphans = {} /\ calls[c].dOut = "failed"
    => /\ calls[c].status = "resolved"
       /\ calls[c].result # NoNote
       /\ calls[c].result.content = lastSaved.content
       /\ calls[c].result = calls[c].lsNote

\* C4 (precedence): when the Fast backend holds content A and the Durable
\* backend returned an Entry with another content B, getNote returns the Entry
\* with content A.
C4_Precedence ==
  \A c \in Slots :
    /\ IsGetDone(c) /\ calls[c].fOut = "ok"
    /\ ls.backup.has /\ ls.backup_time.has
    /\ calls[c].idbNote # NoNote
    /\ calls[c].idbNote.content # ls.backup.v
    => /\ calls[c].result # NoNote
       /\ calls[c].result.content = ls.backup.v

\* C5 (open that never completes): a call waiting for the open of the Durable
\* store eventually resolves, whether or not the open ever fires an event.
\* Stated for the oldest call in flight, which keeps slot 1 until it is done.
C5_OpenTimesOut ==
  (calls[1].pc = "awaitOpen") ~> (calls[1].pc = "done")

\* C6 (timeout on a stuck request): while a call waits for its get request or
\* put transaction the timer is armed without any IndexedDB event; when it
\* fires the call resolves (the read contributes null, the write counts as
\* done); an event of the abandoned transaction changes no call's result.
C6_TimeoutResolves ==
  /\ [](\A c \in Slots :
         /\ (NoneDone /\ calls[c].pc = "awaitGet" => ENABLED GetTimeout(c))
         /\ (NoneDone /\ calls[c].pc = "awaitPut" => ENABLED SaveTimeout(c)))
  /\ [][\A c \in Slots :
         SaveTimeout(c) => /\ calls'[c].pc = "done"
                           /\ calls'[c].status = "resolved"
                           /\ calls'[c].result = NoteOf(calls[c])
                           /\ idb' = idb]_vars
  /\ [][\A c \in Slots :
         GetTimeout(c) => /\ calls'[c].pc = "done"
                          /\ calls'[c].status = "resolved"
                          /\ calls'[c].idbNote = NoNote
                          /\ calls'[c].result = calls[c].lsNote]_vars
  /\ [][(\E o \in orphans, commits \in BOOLEAN : LateEvent(o, commits))
         => calls' = calls /\ lastSaved' = lastSaved]_vars

C6_Witness ==
  \E c \in Slots :
    /\ calls[c].pc = "done" /\ calls[c].dOut = "timeout"
    /\ calls[c].status = "resolved"

\* C7 (no error propagation): whatever the backends do, no call rejects, and
\* a call that is done has resolved.
C7_NoReject ==
  \A c \in Slots :
    /\ calls[c].status # "rejected"
    /\ calls[c].pc = "done" => calls[c].status = "resolved"

C7_Witness ==
  \E c \in Slots :
    /\ IsGetDone(c) /\ calls[c].status = "resolved"
    /\ calls[c].fOut = "failed" /\ calls[c].dOut = "failed"
    /\ calls[c].dbOpen

\* C8 (echo): saveNote resolves to {id 1, the caller's content, the stamp
\* taken when the call started}, whatever happened to the two writes.
C8_Echo ==
  \A c \in Slots :
    IsSaveDone(c)
      => /\ calls[c].status = "resolved"
         /\ calls[c].result = [id |-> 1, content |-> calls[c].content,
                               updatedAt |-> calls[c].now]

C8_Witness ==
  \E c \in Slots :
    /\ IsSaveDone(c) /\ calls[c].dOut = "timeout"
    /\ calls[c].now < clock
    /\ FastGet(ls) # calls[c].result /\ idb # calls[c].result

C10_Monotonic ==
  /\ [][\A c \in Slots :
         (calls[c].pc = "idle" /\ calls'[c].kind = "save")
           => calls'[c].now >= clock]_vars
  /\ [](\A c \in Slots :
         GetAfterSave(c) /\ FastServed(c) /\ lastSaved.n = 2
           => /\ calls[c].result # NoNote
              /\ calls[c].result.content = lastSaved.content)

\* C11 (caller not blocked on the Durable backend): a call whose Fast step is
\* over has its result available to the caller; it never waits for an open,
\* a request, a transaction or a timer of the Durable backend.
C11_NotBlocked ==
  \A c \in Slots : calls[c].kind \in {"get", "save"} => calls[c].pc = "done"

\* C12 (Fast at least as fresh): when no save is in flight, no transaction is
\* outstanding and both backends hold an Entry, the stamp of the Fast backend
\* is not smaller than the stamp of the Durable backend.
C12_FastFresh ==
  (/\ ~SaveInFlight /\ orphans = {}
   /\ ls.backup.has /\ ls.backup_time.has /\ idb # NoNote)
    => parseInt(TimeOrZero(ls.backup_time)) >= idb.updatedAt

\* C13 (overlapping saves): when saveNote calls overlapped and all of them
\* have settled, in whatever order their transactions ended, getNote resolves
\* to the content of the saveNote invoked last, whatever the Durable backend
\* holds.
C13_Overlap ==
  \A c \in Slots :
    GetAfterSave(c) /\ FastServed(c) /\ lastSaved.n = 3
      => /\ calls[c].status = "resolved"
         /\ calls[c].result # NoNote
         /\ calls[c].result.content = lastSaved.content

\* a step in which slot c takes a saveNote call
SaveStarts(c) == calls[c].pc = "idle" /\ calls'[c].kind = "save"

\* C14 (no partial write in the Fast backend): every step that changes the
\* Fast backend leaves both of its keys written by the one saveNote call that
\* started in that step, also when one of the two setItem calls throws.
C14_NoPartial ==
  [][ls' # ls =>
       \E c \in Slots :
         /\ SaveStarts(c)
         /\ ls'.backup = [has |-> TRUE, v |-> calls'[c].content]
         /\ ls'.backup_time = [has |-> TRUE, v |-> toString(calls'[c].now)]]_vars

\* C15 (write ordering within one save): the Fast backend is written in the
\* step in which the call starts, which neither issues the put nor changes
\* the Durable backend; no later step of the call, and no step of the
\* Durable backend, writes the Fast backend.
C15_FastFirst ==
  [][/\ ls' # ls => \E c \in Slots : SaveStarts(c)
     /\ \A c \in Slots :
          SaveStarts(c) => /\ calls'[c].pc \in {"awaitOpen", "done"}
                           /\ ~calls'[c].dbOpen
                           /\ idb' = idb /\ orphans' = orphans]_vars

C15_Witness ==
  \E c \in Slots :
    /\ calls[c].kind = "save" /\ calls[c].pc = "awaitPut"
    /\ ls.backup = [has |-> TRUE, v |-> calls[c].content]
    /\ ls.backup_time = [has |-> TRUE, v |-> toString(calls[c].now)]
    /\ idb # NoteOf(calls[c])

\* C16 (connection release): when a call resolves, the IDBDatabase connection
\* it opened is closed, on every path.
C16_Released ==
  \A c \in Slots : calls[c].pc = "done" => ~calls[c].dbOpen

\* C17 (single stamp per save): the stamp a saveNote call takes when it starts
\* is the one it writes to the timestamp key of the Fast backend, the one in
\* the Entry it puts to the Durable backend (committed in time or after the
\* timeout) and the one in the Entry it returns.
C17_SingleStamp ==
  /\ [][\A c \in Slots :
         (SaveStarts(c) /\ ls'.backup_time # ls.backup_time)
           => /\ ls'.backup_time.has
              /\ parseInt(ls'.backup_time.v) = calls'[c].now]_vars
  /\ [][\A c \in Slots :
         SaveTxComplete(c) => /\ idb'.updatedAt = calls[c].now
                              /\ calls'[c].result.updatedAt = calls[c].now]_vars
  /\ [][\A c \in Slots :
         SaveTimeout(c) => /\ \A o \in orphans' \ orphans :
                                o.updatedAt = calls[c].now
                           /\ calls'[c].result.updatedAt = calls[c].now]_vars
  /\ [](\A c \in Slots :
         IsSaveDone(c) => calls[c].result.updatedAt = calls[c].now)

C17_Witness ==
  \E c \in Slots :
    /\ IsSaveDone(c) /\ calls[c].dOut = "ok"
    /\ calls[c].now < clock
    /\ ls.backup_time = [has |-> TRUE, v |-> toString(calls[c].now)]
    /\ idb = calls[c].result

\* a stored string that is not the decimal writing of an integer
NotInteger(str) == str = << >> \/ \E i \in 1..Len(str) : ~IsDigit(str[i])

\* C18 (Fast read timestamp default): when the content key holds a non-empty
\* content and localStorage is read, the Fast result carries that content,
\* and its updatedAt is 0 when the timestamp key is missing or holds a string
\* that does not parse as an integer.
C18_TimeDefault ==
  \A c \in Slots :
    (IsGetDone(c) /\ calls[c].fOut = "ok" /\ Truthy(ls.backup))
      => /\ calls[c].lsNote # NoNote
         /\ calls[c].lsNote.content = ls.backup.v
         /\ (~ls.backup_time.has \/ NotInteger(ls.backup_time.v))
              => calls[c].lsNote.updatedAt = 0

\* C19 (reload restores the note): when the startup getNote resolved to an
\* Entry, the step of loadNote that ends the loading leaves the editor
\* rendered with that Entry's content and the last-saved-content marker equal
\* to it.
C19_ReloadRestores ==
  [][(ui.phase = "wait100" /\ ui'.phase # "wait100" /\ ui.note # NoNote)
       => /\ ~ui'.isLoading
          /\ ui'.editor = ui.note.content
          /\ ui'.lastSavedContentRef = ui.note.content]_vars

\* C20 (debounced autosave): once an input event has come and no other event
\* follows the last one, a saveNote call carrying the editor's content is
\* eventually issued (or saveContent finds the content equal to the marker),
\* whatever the flags were when the input came.
C20_Autosave == ui.dirty ~> ~ui.dirty

\* the saveNote calls of the page that are in flight: started and not settled
SavesInFlight == {c \in Slots : calls[c].kind = "save" /\ Awaiting(c)}

\* C21 (the UI does not overlap saves): whatever the order of timer, blur,
\* visibilitychange and beforeunload events, at most one saveNote call of the
\* page is in flight.
C21_NoOverlap == Cardinality(SavesInFlight) <= 1

\* what a getNote() started now returns when both stores can be read
WouldGet == Reconcile(FastGet(ls), idb)

\* saveContent, run now, returns at `content === lastSavedContentRef.current`
SkipsUnchanged ==
  /\ NoneDone /\ Rendered
  /\ ~ui.isLoadingRef /\ ~ui.isSavingRef
  /\ EditorContent = ui.lastSavedContentRef

\* C22 (skip-if-unchanged is sound): when saveContent skips the save because
\* the editor's content equals the marker, getNote() would return an Entry
\* with that content.  Stated for a content that is not the empty string.
C22_SkipSound ==
  SkipsUnchanged /\ EditorContent # ""
    => WouldGet # NoNote /\ WouldGet.content = EditorContent

\* the same for any content once a save has left a non-empty content in
\* localStorage (violated after a save of handleBeforeUnload, which leaves
\* the marker as it was)
SkipSoundStored ==
  SkipsUnchanged /\ lastSaved.n >= 1 /\ Truthy(ls.backup)
    => WouldGet # NoNote /\ WouldGet.content = EditorContent

\* a step of a getNote call: its start, or a step of a call in flight
GetSteps(c) ==
  \/ calls[c].pc = "idle" /\ calls'[c].kind = "get"
  \/ calls[c].kind = "get" /\ calls'[c] # calls[c]

====
